---- MODULE Spec2Model ----
(***************************************************************************)
(* Wallet ledger of SharkFund (cloudManager/models.py): the Transaction    *)
(* table, the Wallet snapshot derived from it, the MonthlyIncome table,    *)
(* the account status of the users and the signal handlers that tie them   *)
(* together.                                                               *)
(*                                                                         *)
(* Amounts are DecimalField(decimal_places=2) values; the model counts     *)
(* them in whole currency units.  The database is the one Django drives    *)
(* by default: autocommit outside transaction.atomic, READ COMMITTED       *)
(* reads, and SELECT ... FOR UPDATE row locks held to the end of the       *)
(* outermost atomic block.                                                 *)
(***************************************************************************)
EXTENDS Integers, Sequences, FiniteSets, TLC

\* ------------------------------------------------------------------ bounds
\* Largest number of rows of the Transaction table.
MaxRows == 3

\* The committed ledger rows up to which the concurrent threads take requests.
MaxMixRows == 3

\* The depth of nested calls at which the interpreter raises RecursionError.
RecursionLimit == 5

\* Amounts callers submit to add_funds, to withdraw_funds and to the request API.
DepositAmounts == {0, 400}
WithdrawAmounts == {0, 400}
RequestAmounts == {0, 1000}
\* total_income values of a MonthlyIncome record (MinValueValidator(0)).
Totals == {400}
Months == {"m1", "m2"}

\* ---------------------------------------------------------------- constants
\* Decimal('400.00'), the referral bonus.
ReferralBonus == 400
\* "at least 2 active referrals" of the withdrawal request.
MinActiveReferrals == 2

None == "none"
Users == {"u1", "u2", "u3"}
\* The users whose wallets receive deposits, withdrawals and monthly income.
Transactors == {"u1"}

TxTypes == {"DEPOSIT", "WITHDRAWAL", "INCOME", "RESET_DEPOSIT", "REFERRAL"}
TxStatus == {"COMPLETED", "PENDING", "FAILED"}

VARIABLES
    status,       \* CustomUser.status, per user
    referred_by,  \* CustomUser.referred_by, per user (None = NULL)
    wallet,       \* the Wallet row of each user: its five derived fields
    ledger,       \* the Transaction table, in primary-key order
    monthly,      \* the MonthlyIncome table, in primary-key order
    proc,         \* the withdraw_funds call each request thread is in
    lock,         \* per Wallet row, the thread holding its FOR UPDATE lock
    registered,   \* the users that have a CustomUser row
    wallets,      \* the users that have a Wallet row
    payment_detail, \* the PaymentDetail row of each user
    stats,        \* the last response of the team statistics view
    auth,         \* per user, the password and the stored OTP record
    now           \* the clock that timezone.now() reads

db == <<status, referred_by, wallet, ledger, monthly, registered, wallets,
        payment_detail, stats, auth, now>>
vars == <<status, referred_by, wallet, ledger, monthly, proc, lock,
          registered, wallets, payment_detail, stats, auth, now>>
others == <<proc, lock, registered, wallets, payment_detail, stats, auth, now>>

\* ------------------------------------------------------------ the ledger
Row(u, type, amount, st, kind, ref) ==
    [wallet |-> u, type |-> type, amount |-> amount, status |-> st,
     desc |-> <<kind, ref>>]

RECURSIVE SumRows_AnyStatus(_, _, _)
\* A sum that takes the rows of every status.
SumRows_AnyStatus(L, u, types) ==
    IF L = <<>> THEN 0
    ELSE (IF Head(L).wallet = u /\ Head(L).type \in types
          THEN Head(L).amount ELSE 0) + SumRows_AnyStatus(Tail(L), u, types)

RECURSIVE SumRows(_, _, _)
\* Sum('amount') over the COMPLETED rows of wallet u whose type is in types.
SumRows(L, u, types) ==
    IF L = <<>> THEN 0
    ELSE (IF Head(L).wallet = u /\ Head(L).status = "COMPLETED"
             /\ Head(L).type \in types
          THEN Head(L).amount ELSE 0) + SumRows(Tail(L), u, types)

\* The balance read from the persisted wallet_balance field.
calculate_balance_Snapshot(L, u) == wallet[u].wallet_balance

\* Wallet.calculate_balance: three aggregates over the COMPLETED rows.
calculate_balance(L, u) ==
    SumRows(L, u, {"INCOME"}) + SumRows(L, u, {"REFERRAL"})
        - SumRows(L, u, {"WITHDRAWAL"})

Max(a, b) == IF a >= b THEN a ELSE b

update_from_transactions(L, u) ==
    LET deposits == SumRows(L, u, {"DEPOSIT", "RESET_DEPOSIT"})
        withdrawals == SumRows(L, u, {"WITHDRAWAL"})
        incomes == SumRows(L, u, {"INCOME"})
        referrals == SumRows(L, u, {"REFERRAL"})
    IN [total_deposit |-> Max(deposits, 0),
        total_income |-> incomes,
        refer_income |-> referrals,
        total_withdrawal |-> withdrawals,
        wallet_balance |-> incomes + referrals - withdrawals]

EmptyWallet ==
    [total_deposit |-> 0, total_income |-> 0, refer_income |-> 0,
     total_withdrawal |-> 0, wallet_balance |-> 0]

\* A save that admits every row.
Admitted_Unchecked(L, row) == TRUE

\* Transaction.save of a new row: the admission check of a COMPLETED WITHDRAWAL.
Admitted(L, row) ==
    ~(row.type = "WITHDRAWAL" /\ row.status = "COMPLETED"
      /\ calculate_balance(L, row.wallet) < row.amount)

\* Transaction.save re-aggregates the wallet when the saved status is COMPLETED.
Reaggregates(st) == st = "COMPLETED"

\* The Wallet table after Transaction.save wrote a row of wallet u with status st
\* into ledger L.
WalletAfterSave(W, L, u, st) ==
    IF Reaggregates(st)
    THEN [W EXCEPT ![u] = update_from_transactions(L, u)]
    ELSE W

\* Transaction.save of a new row that passed the admission check: the tables after it.
SaveNew(W, L, row) ==
    LET L2 == Append(L, row)
    IN [ledger |-> L2, wallet |-> WalletAfterSave(W, L2, row.wallet, row.status)]

\* ------------------------------------------------------------------ Init
Procs == {"p1", "p2"}

\* A thread that is in no call: no uncommitted rows, no result.
Idle ==
    [pc |-> "idle", wallet |-> None, amount |-> 0, rows |-> <<>>,
     snap |-> EmptyWallet, result |-> "none",
     user |-> None, activate |-> FALSE, month |-> None,
     written |-> {}, snaps |-> [u \in Users |-> EmptyWallet],
     status_set |-> FALSE, income_set |-> FALSE]

\* The columns of a PaymentDetail row; a row is the set of those filled in.
BankFields == {"account_holder_name", "account_number", "ifsc_code"}
CardFields == {"card_number", "name_on_card", "expiry_date", "cvv"}
PaymentFields == BankFields \cup CardFields \cup {"upi_id"}

\* A user without a PaymentDetail row.
NoDetail == [stored |-> FALSE, filled |-> {}]

\* A user with the password of the registration and no OTP record. verified
\* records whether a verification of the stored OTP has succeeded since it
\* was issued.
NoOtp == [password |-> "pw0", otp |-> None, expires_at |-> 0, verified |-> FALSE]

\* No response of the team statistics view yet.
NoStats ==
    [user |-> None, via |-> None, raised |-> FALSE,
     total_team |-> 0, active_team |-> 0,
     total_referrals |-> 0, active_referrals |-> 0]

\* Every user is registered and owns a wallet; no payment details are stored
\* and no thread is in a call.
InitRest ==
    /\ proc = [p \in Procs |-> Idle]
    /\ lock = [u \in Users |-> None]
    /\ registered = Users
    /\ wallets = Users
    /\ payment_detail = [u \in Users |-> NoDetail]
    /\ stats = NoStats
    /\ auth = [u \in Users |-> NoOtp]
    /\ now = 0

\* Three registered users, u2 and u3 referred by u1, nothing else stored.
Init ==
    /\ status = [u \in Users |-> "InActive"]
    /\ referred_by = [u \in Users |-> IF u = "u1" THEN None ELSE "u1"]
    /\ wallet = [u \in Users |-> EmptyWallet]
    /\ ledger = <<>>
    /\ monthly = <<>>
    /\ InitRest

\* --------------------------------------------------------------- deposits
\* Wallet.add_funds(amount)
add_funds(u, amount) ==
    /\ UNCHANGED others
    /\ IF amount <= 0
       THEN /\ UNCHANGED <<status, referred_by, wallet, ledger, monthly>>
       ELSE LET r == SaveNew(wallet, ledger,
                             Row(u, "DEPOSIT", amount, "COMPLETED", "Deposit", ""))
            IN /\ ledger' = r.ledger
               /\ wallet' = [r.wallet EXCEPT ![u] = update_from_transactions(r.ledger, u)]
               /\ UNCHANGED <<status, referred_by, monthly>>

\* Wallet.withdraw_funds(amount), run alone
withdraw_funds(u, amount) ==
    /\ UNCHANGED others
    /\ IF amount <= 0
       THEN /\ UNCHANGED <<status, referred_by, wallet, ledger, monthly>>
       ELSE IF calculate_balance(ledger, u) < amount
       THEN /\ UNCHANGED <<status, referred_by, wallet, ledger, monthly>>
       ELSE LET row == Row(u, "WITHDRAWAL", amount, "COMPLETED", "Withdrawal", "")
                r == SaveNew(wallet, ledger, row)
            IN IF ~Admitted(ledger, row)
               THEN /\ UNCHANGED <<status, referred_by, wallet, ledger, monthly>>
               ELSE /\ ledger' = r.ledger
                    /\ wallet' = [r.wallet EXCEPT
                                    ![u] = update_from_transactions(r.ledger, u)]
                    /\ UNCHANGED <<status, referred_by, monthly>>

\* ------------------------------------------------- direct ledger writes
\* Types and statuses of the rows written straight through Transaction.save.
DirectTypes == {"WITHDRAWAL"}
DirectStatus == {"COMPLETED"}
DirectAmounts == {400}

\* Transaction.objects.create(wallet, amount, transaction_type, status)
create_transaction(u, type, amount, st) ==
    /\ UNCHANGED others
    /\ LET row == Row(u, type, amount, st, "", "")
           r == SaveNew(wallet, ledger, row)
       IN IF ~Admitted(ledger, row)
          THEN /\ UNCHANGED <<status, referred_by, wallet, ledger, monthly>>
          ELSE /\ ledger' = r.ledger
               /\ wallet' = r.wallet
               /\ UNCHANGED <<status, referred_by, monthly>>

\* Transaction.save of a row that exists, its status set to st: no admission
\* check (is_new is false), and the wallet is re-aggregated by the same rule.
SaveExisting(W, L, i, st) ==
    LET L2 == [L EXCEPT ![i].status = st]
    IN [ledger |-> L2, wallet |-> WalletAfterSave(W, L2, L[i].wallet, st)]

\* The status changes exercised: a pending row is completed or failed, a
\* completed row is failed.
StatusChanges ==
    {<<"PENDING", "COMPLETED">>, <<"PENDING", "FAILED">>, <<"COMPLETED", "FAILED">>}

\* tx.status = st; tx.save()   (the status column of the admin inline)
set_status(i, st) ==
    /\ UNCHANGED others
    /\ LET r == SaveExisting(wallet, ledger, i, st)
       IN /\ <<ledger[i].status, st>> \in StatusChanges
          /\ ledger' = r.ledger
          /\ wallet' = r.wallet
          /\ UNCHANGED <<status, referred_by, monthly>>

RemoveAt(L, i) == SubSeq(L, 1, i - 1) \o SubSeq(L, i + 1, Len(L))

\* Transaction.delete(): the class defines no delete, so the row is removed by
\* Model.delete; nothing re-aggregates the wallet.
TransactionDelete(L, i) == RemoveAt(L, i)

delete_transaction(i) ==
    /\ UNCHANGED others
    /\ ledger' = TransactionDelete(ledger, i)
    /\ UNCHANGED <<status, referred_by, wallet, monthly>>

\* ------------------------------------------------ the withdrawal request
\* The Active users of the whole table, whoever referred them.
active_referrals_Unfiltered(u) ==
    Cardinality({v \in DOMAIN referred_by : status[v] = "Active"})

\* CustomUser.active_referrals, and the same count in the statistics view.
active_referrals(u) ==
    Cardinality({v \in DOMAIN referred_by :
                    referred_by[v] = u /\ status[v] = "Active"})

\* WithdrawalRequestSerializer: field validation, validate() and create().
\* pay_ok: the user's stored PaymentDetail has a UPI id or a complete bank group.
request_withdrawal(u, amount, pay_ok) ==
    /\ UNCHANGED others
    /\ IF ~(amount > 0 /\ pay_ok /\ active_referrals(u) >= MinActiveReferrals)
       THEN /\ UNCHANGED <<status, referred_by, wallet, ledger, monthly>>
       ELSE LET r == SaveNew(wallet, ledger,
                             Row(u, "WITHDRAWAL", amount, "PENDING", "", ""))
            IN /\ ledger' = r.ledger
               /\ wallet' = r.wallet
               /\ UNCHANGED <<status, referred_by, monthly>>

\* ---------------------------------------------- activation and its bonus
\* A handler that looks at the incoming status alone.
BonusDue_IncomingOnly(u, incoming) ==
    /\ incoming = "Active"
    /\ referred_by[u] # None

\* handle_referral_income_on_activation: the persisted status is compared
\* with the incoming one.
BonusDue(u, incoming) ==
    /\ status[u] # "Active"
    /\ incoming = "Active"
    /\ referred_by[u] # None

\* A handler that takes the referrer's wallet for granted.
ReferrerHasWallet_Assumed(u) == TRUE

\* The referrer of the user has a wallet: hasattr(referrer, 'wallet').
ReferrerHasWallet(u) == referred_by[u] \in wallets

\* user.status = incoming; user.save().  The pre_save handler runs, and commits
\* its bonus, before the UPDATE of the user row; written says whether that
\* UPDATE then succeeded.
save_user(u, incoming, written) ==
    /\ UNCHANGED others
    /\ LET due == BonusDue(u, incoming) /\ ReferrerHasWallet(u)
           r == IF due
                THEN SaveNew(wallet, ledger,
                             Row(referred_by[u], "REFERRAL", ReferralBonus,
                                 "COMPLETED", "Referral bonus", u))
                ELSE [ledger |-> ledger, wallet |-> wallet]
       IN /\ status' = IF written THEN [status EXCEPT ![u] = incoming] ELSE status
          /\ ledger' = r.ledger
          /\ wallet' = r.wallet
          /\ UNCHANGED <<referred_by, monthly>>

\* ---------------------------------------------------------- monthly income
\* A table without the constraint.
UniqueTogether_Absent(M, u, m) == TRUE

\* Meta.unique_together = ('user', 'month')
UniqueTogether(M, u, m) == ~\E k \in 1..Len(M) : M[k].user = u /\ M[k].month = m

\* A reset row that nets nothing.
ResetAmount_Zero(current_deposit) == 0

\* amount=-current_deposit of the RESET_DEPOSIT row
ResetAmount(current_deposit) == -current_deposit

\* update_wallet_on_monthly_income_save, run to its end: the tables after it.
MonthlyIncomeSaved(W, L, u, m, t) ==
    LET r1 == SaveNew(W, L, Row(u, "INCOME", t, "COMPLETED", "Monthly income", m))
        current_deposit == SumRows(r1.ledger, u, {"DEPOSIT", "RESET_DEPOSIT"})
    IN IF current_deposit > 0
       THEN SaveNew(r1.wallet, r1.ledger,
                    Row(u, "RESET_DEPOSIT", ResetAmount(current_deposit),
                        "COMPLETED", "Reset deposit", m))
       ELSE r1

\* MonthlyIncome.objects.create(user, month, ..., total_income).  The INSERT is
\* committed before post_save runs; handler_ok says whether the handler then
\* ran to its end (it raises when its wallet lookup fails, or inside its
\* atomic block, which rolls both of its rows back).
create_monthly_income(u, m, t, handler_ok) ==
    /\ UNCHANGED others
    /\ IF ~UniqueTogether(monthly, u, m)
       THEN /\ UNCHANGED <<status, referred_by, wallet, ledger, monthly>>
       ELSE LET r == IF handler_ok
                     THEN MonthlyIncomeSaved(wallet, ledger, u, m, t)
                     ELSE [ledger |-> ledger, wallet |-> wallet]
            IN /\ monthly' = Append(monthly, [user |-> u, month |-> m, total_income |-> t])
               /\ ledger' = r.ledger
               /\ wallet' = r.wallet
               /\ UNCHANGED <<status, referred_by>>

\* wallet.transactions.filter(INCOME, COMPLETED, description=...).first():
\* the index of that row, 0 when there is none.
IncomeTx(L, u, m) ==
    LET hits == {i \in 1..Len(L) :
                   /\ L[i].wallet = u /\ L[i].type = "INCOME"
                   /\ L[i].status = "COMPLETED"
                   /\ L[i].desc = <<"Monthly income", m>>}
    IN IF hits = {} THEN 0 ELSE CHOOSE i \in hits : \A j \in hits : i <= j

\* A handler that reverses the income whatever the balance.
ReversalAllowed_Always(L, u, i) == TRUE

\* if wallet.calculate_balance() >= income_tx.amount
ReversalAllowed(L, u, i) == calculate_balance(L, u) >= L[i].amount

\* MonthlyIncome.delete() with update_wallet_on_monthly_income_delete (pre_delete)
delete_monthly_income(k) ==
    /\ UNCHANGED others
    /\ LET mi == monthly[k]
           i == IncomeTx(ledger, mi.user, mi.month)
       IN IF i = 0
          THEN /\ monthly' = RemoveAt(monthly, k)
               /\ UNCHANGED <<status, referred_by, wallet, ledger>>
          ELSE IF ReversalAllowed(ledger, mi.user, i)
          THEN LET r == SaveExisting(wallet, ledger, i, "FAILED")
               IN /\ ledger' = r.ledger
                  /\ wallet' = r.wallet
                  /\ monthly' = RemoveAt(monthly, k)
                  /\ UNCHANGED <<status, referred_by>>
          ELSE /\ UNCHANGED <<status, referred_by, wallet, ledger, monthly>>

\* ------------------------------------------------------------------ Next
\* The Transaction table holds at most MaxRows rows.
Bounded == Len(ledger') <= MaxRows

\* The operations of the running service: deposits, withdrawals, rows written
\* directly, withdrawal requests and their completion, saves of users
\* (activation and its bonus), monthly income batches and their deletion.
Next ==
    \/ \E u \in Transactors, a \in DepositAmounts : add_funds(u, a) /\ Bounded
    \/ \E u \in Transactors, a \in WithdrawAmounts : withdraw_funds(u, a) /\ Bounded
    \/ \E u \in Transactors, a \in RequestAmounts, p \in BOOLEAN :
          request_withdrawal(u, a, p) /\ Bounded
    \/ \E u \in Transactors, ty \in DirectTypes, a \in DirectAmounts, st \in DirectStatus :
          create_transaction(u, ty, a, st) /\ Bounded
    \/ \E i \in 1..Len(ledger) : set_status(i, "COMPLETED")
    \/ \E u \in Users \ Transactors, s \in {"Active", "InActive"}, w \in BOOLEAN :
          save_user(u, s, w) /\ Bounded
    \/ \E u \in Transactors, m \in Months, t \in Totals, h \in BOOLEAN :
          create_monthly_income(u, m, t, h) /\ Bounded
    \/ \E k \in 1..Len(monthly) : delete_monthly_income(k)

Spec == Init /\ [][Next]_vars

\* The ledger of one wallet under the admin site as well: every status
\* change, and deletions of rows.
NextAdmin ==
    \/ \E u \in Transactors, a \in DepositAmounts : add_funds(u, a) /\ Bounded
    \/ \E u \in Transactors, a \in WithdrawAmounts : withdraw_funds(u, a) /\ Bounded
    \/ \E i \in 1..Len(ledger), st \in TxStatus : set_status(i, st)
    \/ \E i \in 1..Len(ledger) : delete_transaction(i)
    \/ \E u \in Transactors, m \in Months, t \in Totals :
          create_monthly_income(u, m, t, TRUE) /\ Bounded
    \/ \E k \in 1..Len(monthly) : delete_monthly_income(k)

SpecAdmin == Init /\ [][NextAdmin]_vars

\* Largest number of rows of the Transaction table while only deposits and
\* monthly income batches run.
MaxBatchRows == 6

\* Deposits and monthly income batches alone, over a longer ledger: deposits
\* before, between and after the batches of a wallet.
NextBatch ==
    \/ \E u \in Transactors, a \in DepositAmounts :
          add_funds(u, a) /\ Len(ledger') <= MaxBatchRows
    \/ \E u \in Transactors, m \in Months, t \in Totals, h \in BOOLEAN :
          create_monthly_income(u, m, t, h) /\ Len(ledger') <= MaxBatchRows
    \/ \E k \in 1..Len(monthly) : delete_monthly_income(k)

SpecBatch == Init /\ [][NextBatch]_vars

\* Amounts of every sign handed to the operations that take one, and the
\* total_income values MinValueValidator(0) admits.
SignedAmounts == {-400, 0, 400}
ZeroTotals == {0, 400}

\* The operations that write ledger rows, called with amounts of every sign.
NextAmounts ==
    \/ \E u \in Transactors, a \in SignedAmounts : add_funds(u, a) /\ Bounded
    \/ \E u \in Transactors, a \in SignedAmounts : withdraw_funds(u, a) /\ Bounded
    \/ \E u \in Transactors, a \in SignedAmounts, p \in BOOLEAN :
          request_withdrawal(u, a, p) /\ Bounded
    \/ \E u \in Users \ Transactors, s \in {"Active", "InActive"}, w \in BOOLEAN :
          save_user(u, s, w) /\ Bounded
    \/ \E u \in Transactors, m \in Months, t \in ZeroTotals, h \in BOOLEAN :
          create_monthly_income(u, m, t, h) /\ Bounded

SpecAmounts == Init /\ [][NextAmounts]_vars

\* Largest number of rows of the Transaction table while rows that are not
\* COMPLETED are appended, the statuses of those rows and their amounts.
MaxInertRows == 5
InertStatus == {"PENDING", "FAILED"}
InertAmounts == {1000}

\* Both referred users have been activated: the referrer's wallet holds the
\* two bonuses, and the referrer may request withdrawals.
InitInert ==
    LET r1 == SaveNew([u \in Users |-> EmptyWallet], <<>>,
                      Row("u1", "REFERRAL", ReferralBonus, "COMPLETED",
                          "Referral bonus", "u2"))
        r2 == SaveNew(r1.wallet, r1.ledger,
                      Row("u1", "REFERRAL", ReferralBonus, "COMPLETED",
                          "Referral bonus", "u3"))
    IN /\ status = [u \in Users |-> IF u = "u1" THEN "InActive" ELSE "Active"]
       /\ referred_by = [u \in Users |-> IF u = "u1" THEN None ELSE "u1"]
       /\ wallet = r2.wallet
       /\ ledger = r2.ledger
       /\ monthly = <<>>
       /\ InitRest

\* Rows of every type appended as PENDING or FAILED, withdrawal requests and
\* deposits.
NextInert ==
    \/ \E u \in Transactors, ty \in TxTypes, a \in InertAmounts, st \in InertStatus :
          create_transaction(u, ty, a, st) /\ Len(ledger') <= MaxInertRows
    \/ \E u \in Transactors, a \in RequestAmounts, p \in BOOLEAN :
          request_withdrawal(u, a, p) /\ Len(ledger') <= MaxInertRows
    \/ \E u \in Transactors, a \in DepositAmounts :
          add_funds(u, a) /\ Len(ledger') <= MaxInertRows

SpecInert == InitInert /\ [][NextInert]_vars

\* ------------------------------------------- concurrent withdraw_funds calls
\* What a statement of thread p reads: the committed rows and the rows p wrote
\* in its open transaction.
Visible(p) == ledger \o proc[p].rows

WithdrawalRow(p) ==
    Row(proc[p].wallet, "WITHDRAWAL", proc[p].amount, "COMPLETED", "Withdrawal", "")

\* A FOR UPDATE read that does not wait for the holder of the row lock.
RowLockFree_NoWait(w) == TRUE

\* select_for_update().get(...) returns once no other transaction holds the
\* lock of the Wallet row.
RowLockFree(w) == lock[w] = None

\* withdraw_funds is entered: the atomic block opens, amount <= 0 returns.
wf_begin(p, u, a) ==
    /\ proc[p].pc = "idle"
    /\ proc' = [proc EXCEPT ![p] =
                  IF a <= 0
                  THEN [Idle EXCEPT !.pc = "done", !.wallet = u, !.amount = a,
                                    !.result = "InvalidAmount"]
                  ELSE [Idle EXCEPT !.pc = "read", !.wallet = u, !.amount = a]]
    /\ UNCHANGED <<db, lock>>

\* refresh_from_db(); current_balance = calculate_balance(): no lock is held.
wf_read(p) ==
    /\ proc[p].pc = "read"
    /\ proc' = [proc EXCEPT ![p] =
                  IF calculate_balance(Visible(p), proc[p].wallet) < proc[p].amount
                  THEN [@ EXCEPT !.pc = "done", !.result = "InsufficientFunds"]
                  ELSE [@ EXCEPT !.pc = "lock"]]
    /\ UNCHANGED <<db, lock>>

\* Transaction.save: Wallet.objects.select_for_update().get(pk=...) waits for
\* the row lock.
wf_lock(p) ==
    /\ proc[p].pc = "lock"
    /\ RowLockFree(proc[p].wallet)
    /\ lock' = [lock EXCEPT ![proc[p].wallet] = p]
    /\ proc' = [proc EXCEPT ![p].pc = "admit"]
    /\ UNCHANGED db

\* Transaction.save: the admission check under the lock.  ValidationError is
\* caught by withdraw_funds, which returns; its atomic block commits nothing.
wf_admit(p) ==
    /\ proc[p].pc = "admit"
    /\ IF Admitted(Visible(p), WithdrawalRow(p))
       THEN /\ proc' = [proc EXCEPT ![p].pc = "insert"]
            /\ UNCHANGED lock
       ELSE /\ proc' = [proc EXCEPT ![p].pc = "done", ![p].result = "Failed"]
            /\ lock' = [lock EXCEPT ![proc[p].wallet] = None]
    /\ UNCHANGED db

\* Transaction.save: super().save() inserts the row.
wf_insert(p) ==
    /\ proc[p].pc = "insert"
    /\ proc' = [proc EXCEPT ![p].rows = Append(@, WithdrawalRow(p)),
                            ![p].pc = "snapshot"]
    /\ UNCHANGED <<db, lock>>

\* Transaction.save: wallet.update_from_transactions() (the row is COMPLETED).
wf_snapshot(p) ==
    /\ proc[p].pc = "snapshot"
    /\ proc' = [proc EXCEPT
                  ![p].snap = update_from_transactions(Visible(p), proc[p].wallet),
                  ![p].pc = "resnapshot"]
    /\ UNCHANGED <<db, lock>>

\* withdraw_funds: self.update_from_transactions()
wf_resnapshot(p) ==
    /\ proc[p].pc = "resnapshot"
    /\ proc' = [proc EXCEPT
                  ![p].snap = update_from_transactions(Visible(p), proc[p].wallet),
                  ![p].pc = "commit"]
    /\ UNCHANGED <<db, lock>>

\* The atomic block of withdraw_funds exits: the row and the snapshot are
\* committed and the row lock is released.
wf_commit(p) ==
    /\ proc[p].pc = "commit"
    /\ ledger' = ledger \o proc[p].rows
    /\ wallet' = [wallet EXCEPT ![proc[p].wallet] = proc[p].snap]
    /\ lock' = [lock EXCEPT ![proc[p].wallet] = None]
    /\ proc' = [proc EXCEPT ![p].pc = "done", ![p].rows = <<>>, ![p].result = "ok"]
    /\ UNCHANGED <<status, referred_by, monthly, registered, wallets,
                    payment_detail, stats,
                    auth, now>>

\* Balances of the wallet the concurrent calls start from, and the amounts
\* the calls ask for.
ConcTotals == {0, 100, 400, 500, 800}
ConcAmounts == {0, 100, 400}

\* A wallet whose one monthly income batch of total t has been created.
InitConc ==
    \E t \in ConcTotals :
        LET r == MonthlyIncomeSaved([u \in Users |-> EmptyWallet], <<>>, "u1", "m1", t)
        IN /\ status = [u \in Users |-> "InActive"]
           /\ referred_by = [u \in Users |-> IF u = "u1" THEN None ELSE "u1"]
           /\ wallet = r.wallet
           /\ ledger = r.ledger
           /\ monthly = <<[user |-> "u1", month |-> "m1", total_income |-> t]>>
           /\ InitRest

NextConc ==
    \/ \E p \in Procs, u \in Transactors, a \in ConcAmounts : wf_begin(p, u, a)
    \/ \E p \in Procs : wf_read(p)
    \/ \E p \in Procs : wf_lock(p)
    \/ \E p \in Procs : wf_admit(p)
    \/ \E p \in Procs : wf_insert(p)
    \/ \E p \in Procs : wf_snapshot(p)
    \/ \E p \in Procs : wf_resnapshot(p)
    \/ \E p \in Procs : wf_commit(p)

SpecConc == InitConc /\ [][NextConc]_vars


\* ----------------------------------------------------- team statistics
\* The users of the referral forests: one more than Users, so that a chain
\* of three referrals exists.
TeamUsers == Users \cup {"u4"}

\* user.referrals: the reverse side of the referred_by foreign key.
referrals(u) == {v \in DOMAIN referred_by : referred_by[v] = u}

\* CustomUser.total_referrals.
total_referrals(u) == Cardinality(referrals(u))

\* Only the direct referrals.
total_team_DirectOnly(u) == Cardinality(referrals(u))

\* CustomUser.total_team: count_referrals(user) is the number of the user's
\* referrals plus the sum of count_referrals over them.
RECURSIVE count_referrals(_), count_indirect(_)
count_indirect(rs) ==
    IF rs = {} THEN 0
    ELSE LET r == CHOOSE x \in rs : TRUE
         IN count_referrals(r) + count_indirect(rs \ {r})

count_referrals(u) == Cardinality(referrals(u)) + count_indirect(referrals(u))

total_team(u) == count_referrals(u)

\* CustomUser.active_team: collect_active_referrals starts at the user itself,
\* returns at a user without a wallet, adds the id of an Active user to the set
\* and descends into the user's referrals; the result is the size of the set.
RECURSIVE collect_active_referrals(_)
collect_active_referrals(u) ==
    IF u \notin wallets THEN {}
    ELSE (IF status[u] = "Active" THEN {u} ELSE {})
         \cup UNION {collect_active_referrals(r) : r \in referrals(u)}

active_team(u) == Cardinality(collect_active_referrals(u))

\* get_team of TeamReferralStatsView.get: for every referral one more in total,
\* one more in active if it is Active, plus the totals of its own team.
RECURSIVE get_team(_), get_team_over(_)
get_team_over(rs) ==
    IF rs = {} THEN [total |-> 0, active |-> 0]
    ELSE LET r == CHOOSE x \in rs : TRUE
             sub == get_team(r)
             rest == get_team_over(rs \ {r})
         IN [total |-> 1 + sub.total + rest.total,
             active |-> (IF status[r] = "Active" THEN 1 ELSE 0)
                        + sub.active + rest.active]

get_team(u) == get_team_over(referrals(u))

\* The nested calls of count_referrals, and of get_team, below a call for u at
\* depth d go deeper than the interpreter allows. Neither function remembers
\* the users it has visited.
RECURSIVE count_too_deep(_, _)
count_too_deep(u, d) ==
    \/ d > RecursionLimit
    \/ \E r \in referrals(u) : count_too_deep(r, d + 1)

\* The same for collect_active_referrals, which returns at a user without a
\* wallet; its set holds the Active users found, not the users visited.
RECURSIVE collect_too_deep(_, _)
collect_too_deep(u, d) ==
    /\ u \in wallets
    /\ \/ d > RecursionLimit
       \/ \E r \in referrals(u) : collect_too_deep(r, d + 1)

\* The response when a property or the view raised.
Raised(u, via) ==
    [user |-> u, via |-> via, raised |-> TRUE,
     total_team |-> 0, active_team |-> 0,
     total_referrals |-> 0, active_referrals |-> 0]

\* TeamReferralStatsView.get for the authenticated user u.
TeamReferralStatsView_get(u) ==
    /\ stats' = IF count_too_deep(u, 0) THEN Raised(u, "view")
                ELSE [user |-> u, via |-> "view", raised |-> FALSE,
                      total_team |-> get_team(u).total,
                      active_team |-> get_team(u).active,
                      total_referrals |-> Cardinality(referrals(u)),
                      active_referrals |-> active_referrals(u)]
    /\ UNCHANGED <<status, referred_by, wallet, ledger, monthly, proc, lock,
                    registered, wallets, payment_detail,
                    auth, now>>

\* The admin's user list: the four model properties of the row of u.
CustomUserAdmin_list(u) ==
    /\ stats' = IF count_too_deep(u, 0) \/ collect_too_deep(u, 0)
                THEN Raised(u, "admin")
                ELSE [user |-> u, via |-> "admin", raised |-> FALSE,
                      total_team |-> total_team(u),
                      active_team |-> active_team(u),
                      total_referrals |-> total_referrals(u),
                      active_referrals |-> active_referrals(u)]
    /\ UNCHANGED <<status, referred_by, wallet, ledger, monthly, proc, lock,
                    registered, wallets, payment_detail,
                    auth, now>>

\* The referrers met when following referred_by from v for at most n steps.
RECURSIVE AncestorsIn(_, _, _)
AncestorsIn(rb, v, n) ==
    IF n = 0 \/ rb[v] = None THEN {}
    ELSE {rb[v]} \cup AncestorsIn(rb, rb[v], n - 1)

\* The referral relations in which nobody is their own ancestor.
Forests ==
    {rb \in [TeamUsers -> TeamUsers \cup {None}] :
        \A v \in TeamUsers : v \notin AncestorsIn(rb, v, Cardinality(TeamUsers))}

\* Any referral forest over the users, with any statuses; every user has a
\* wallet and nothing is in the ledger.
InitTeam ==
    /\ referred_by \in Forests
    /\ status \in [TeamUsers -> {"Active", "InActive"}]
    /\ wallet = [u \in TeamUsers |-> EmptyWallet]
    /\ ledger = <<>>
    /\ monthly = <<>>
    /\ proc = [p \in Procs |-> Idle]
    /\ lock = [u \in TeamUsers |-> None]
    /\ registered = TeamUsers
    /\ wallets = TeamUsers
    /\ payment_detail = [u \in TeamUsers |-> NoDetail]
    /\ stats = NoStats
    /\ auth = [u \in Users |-> NoOtp]
    /\ now = 0

NextTeam ==
    \/ \E u \in TeamUsers : TeamReferralStatsView_get(u)
    \/ \E u \in TeamUsers : CustomUserAdmin_list(u)

SpecTeam == InitTeam /\ [][NextTeam]_vars


\* ------------------------------------------------------------ registration
\* RegisterView.post with CustomUserSerializer: validation, then create().
\* validate_username refuses a taken name and validate_referred_by a referrer
\* that does not exist. create_user inserts the CustomUser row, which commits
\* on its own, and then post_save runs create_user_wallet; wallet_ok tells
\* whether Wallet.objects.create succeeds. If it raises, create() turns the
\* exception into a ValidationError and the user row stays. With a referrer
\* the row is saved a second time with referred_by set; link_ok tells whether
\* that save succeeds, and if not the user stays without referrer. The branch
\* that deletes the user again needs the referrer to have vanished since
\* validation, which no operation here does.
register(u, referral, wallet_ok, link_ok) ==
    /\ u \notin registered
    /\ referral \in registered \cup {None}
    /\ registered' = registered \cup {u}
    /\ wallets' = IF wallet_ok THEN wallets \cup {u} ELSE wallets
    /\ referred_by' =
          IF wallet_ok /\ referral # None /\ link_ok
          THEN [referred_by EXCEPT ![u] = referral]
          ELSE referred_by
    /\ UNCHANGED <<status, wallet, ledger, monthly, proc, lock,
                    payment_detail, stats,
                    auth, now>>

\* One registered user with a wallet; the other names are free.
InitRegister ==
    /\ status = [u \in TeamUsers |-> "InActive"]
    /\ referred_by = [u \in TeamUsers |-> None]
    /\ wallet = [u \in TeamUsers |-> EmptyWallet]
    /\ ledger = <<>>
    /\ monthly = <<>>
    /\ proc = [p \in Procs |-> Idle]
    /\ lock = [u \in TeamUsers |-> None]
    /\ registered = {"u1"}
    /\ wallets = {"u1"}
    /\ payment_detail = [u \in TeamUsers |-> NoDetail]
    /\ stats = NoStats
    /\ auth = [u \in Users |-> NoOtp]
    /\ now = 0

NextRegister ==
    \E u \in TeamUsers, referral \in TeamUsers \cup {None},
       wallet_ok \in BOOLEAN, link_ok \in BOOLEAN :
        register(u, referral, wallet_ok, link_ok)

SpecRegister == InitRegister /\ [][NextRegister]_vars


\* --------------------------------------------------------- payment details
\* PaymentDetail.clean on a row with the given filled-in columns: it raises
\* unless an account number, a UPI id or a card number is there, and unless
\* each of the bank group and the card group is complete or empty.
clean(filled) ==
    /\ filled \cap {"account_number", "upi_id", "card_number"} # {}
    /\ (filled \cap BankFields # {} => BankFields \subseteq filled)
    /\ (filled \cap CardFields # {} => CardFields \subseteq filled)

\* The admin's PaymentDetail form (the inline of the user page and the
\* registered model): a model form, whose validation calls clean() before
\* the row is saved.
PaymentDetailAdmin_save(u, filled) ==
    /\ clean(filled)
    /\ payment_detail' = [payment_detail EXCEPT ![u] =
                             [stored |-> TRUE, filled |-> filled]]
    /\ UNCHANGED <<status, referred_by, wallet, ledger, monthly, proc, lock,
                    registered, wallets, stats,
                    auth, now>>

\* CustomerProfileSerializer.update with payment_detail data that gives
\* values for the columns in given and blanks for those in blank. The user row
\* is saved with its stored status. An existing row is updated partially, a
\* missing one is created; PaymentDetailSerializer validates each column by
\* itself and its save() writes the row without calling clean().
CustomerProfileSerializer_update(u, given, blank) ==
    /\ given \cap blank = {}
    /\ given \cup blank # {}
    /\ payment_detail' = [payment_detail EXCEPT ![u] =
          [stored |-> TRUE,
           filled |-> IF payment_detail[u].stored
                      THEN (payment_detail[u].filled \cup given) \ blank
                      ELSE given]]
    /\ UNCHANGED <<status, referred_by, wallet, ledger, monthly, proc, lock,
                    registered, wallets, stats,
                    auth, now>>

NextPayment ==
    \/ \E u \in Transactors, filled \in SUBSET PaymentFields :
          PaymentDetailAdmin_save(u, filled)
    \/ \E u \in Transactors, given \in SUBSET PaymentFields,
          blank \in SUBSET PaymentFields :
          CustomerProfileSerializer_update(u, given, blank)

SpecPayment == Init /\ [][NextPayment]_vars


\* ------------------------------------------------------ edits of referred_by
\* The admin's change form of a user: referred_by is one of its fields and its
\* choices are all users, the edited user included. The form has no check of
\* its own; the save runs the pre_save handler with the status as stored.
CustomUserAdmin_change(u, referrer) ==
    /\ u \in registered
    /\ referrer \in registered \cup {None}
    /\ referred_by' = [referred_by EXCEPT ![u] = referrer]
    /\ UNCHANGED <<status, wallet, ledger, monthly, proc, lock,
                    registered, wallets, payment_detail, stats,
                    auth, now>>

\* One registered user with a wallet and two free names.
InitRefer ==
    /\ status = [u \in Users |-> "InActive"]
    /\ referred_by = [u \in Users |-> None]
    /\ wallet = [u \in Users |-> EmptyWallet]
    /\ ledger = <<>>
    /\ monthly = <<>>
    /\ proc = [p \in Procs |-> Idle]
    /\ lock = [u \in Users |-> None]
    /\ registered = {"u1"}
    /\ wallets = {"u1"}
    /\ payment_detail = [u \in Users |-> NoDetail]
    /\ stats = NoStats
    /\ auth = [u \in Users |-> NoOtp]
    /\ now = 0

NextRefer ==
    \/ \E u \in Users, referral \in Users \cup {None},
          wallet_ok \in BOOLEAN, link_ok \in BOOLEAN :
          register(u, referral, wallet_ok, link_ok)
    \/ \E u \in Users, referrer \in Users \cup {None} :
          CustomUserAdmin_change(u, referrer)
    \/ \E u \in Users : u \in registered /\ TeamReferralStatsView_get(u)
    \/ \E u \in Users : u \in registered /\ CustomUserAdmin_list(u)

SpecRefer == InitRefer /\ [][NextRefer]_vars


\* ------------------------------------------- concurrent ledger mutations
\* Wallet.add_funds is entered: the atomic block opens, amount <= 0 returns.
af_begin(p, u, a) ==
    /\ proc[p].pc = "idle"
    /\ proc' = [proc EXCEPT ![p] =
                  IF a <= 0
                  THEN [Idle EXCEPT !.pc = "done", !.wallet = u, !.amount = a,
                                    !.result = "InvalidAmount"]
                  ELSE [Idle EXCEPT !.pc = "af_lock", !.wallet = u, !.amount = a]]
    /\ UNCHANGED <<db, lock>>

\* Transaction.objects.create: Transaction.save takes the lock of the wallet.
af_lock(p) ==
    /\ proc[p].pc = "af_lock"
    /\ RowLockFree(proc[p].wallet)
    /\ lock' = [lock EXCEPT ![proc[p].wallet] = p]
    /\ proc' = [proc EXCEPT ![p].pc = "af_write"]
    /\ UNCHANGED db

\* Transaction.save inserts the DEPOSIT row and re-aggregates; add_funds
\* re-aggregates once more from the same rows.
af_write(p) ==
    /\ proc[p].pc = "af_write"
    /\ LET L2 == Append(Visible(p),
                        Row(proc[p].wallet, "DEPOSIT", proc[p].amount,
                            "COMPLETED", "Deposit", ""))
       IN proc' = [proc EXCEPT
                     ![p].rows = Append(@, L2[Len(L2)]),
                     ![p].snap = update_from_transactions(L2, proc[p].wallet),
                     ![p].pc = "commit"]
    /\ UNCHANGED <<db, lock>>

\* A submit of the admin's change form of user u opens one transaction for
\* the user row and its inlines. activate: the form sets status to Active;
\* m: the month of a MonthlyIncome row added in the inline, or None.
ac_begin(p, u, activate, m, t) ==
    /\ proc[p].pc = "idle"
    /\ proc' = [proc EXCEPT ![p] =
                  [Idle EXCEPT !.pc = "ac_read", !.user = u,
                               !.activate = activate, !.month = m,
                               !.amount = t]]
    /\ UNCHANGED <<db, lock>>

\* user.save(): the pre_save handler reads the stored row and decides whether
\* the bonus is due; no lock is held for this read.
ac_read(p) ==
    /\ proc[p].pc = "ac_read"
    /\ LET u == proc[p].user
       IN proc' = [proc EXCEPT ![p] =
             IF proc[p].activate /\ BonusDue(u, "Active") /\ ReferrerHasWallet(u)
             THEN [@ EXCEPT !.pc = "ac_bonus_lock", !.wallet = referred_by[u]]
             ELSE [@ EXCEPT !.pc = "ac_user"]]
    /\ UNCHANGED <<db, lock>>

\* Transaction.save of the bonus row takes the lock of the referrer's wallet.
ac_bonus_lock(p) ==
    /\ proc[p].pc = "ac_bonus_lock"
    /\ RowLockFree(proc[p].wallet)
    /\ lock' = [lock EXCEPT ![proc[p].wallet] = p]
    /\ proc' = [proc EXCEPT ![p].pc = "ac_bonus_write"]
    /\ UNCHANGED db

\* Transaction.save inserts the REFERRAL row and re-aggregates the referrer's
\* wallet. The handler's atomic block is nested in the transaction of the
\* request, so the lock stays.
ac_bonus_write(p) ==
    /\ proc[p].pc = "ac_bonus_write"
    /\ LET w == proc[p].wallet
           L2 == Append(Visible(p),
                        Row(w, "REFERRAL", ReferralBonus, "COMPLETED",
                            "Referral bonus", proc[p].user))
       IN proc' = [proc EXCEPT
                     ![p].rows = Append(@, L2[Len(L2)]),
                     ![p].snaps = [@ EXCEPT ![w] = update_from_transactions(L2, w)],
                     ![p].written = @ \cup {w},
                     ![p].pc = "ac_user"]
    /\ UNCHANGED <<db, lock>>

\* The UPDATE of the user row; then the inline formset is saved.
ac_user(p) ==
    /\ proc[p].pc = "ac_user"
    /\ proc' = [proc EXCEPT
                  ![p].status_set = proc[p].activate,
                  ![p].pc = IF proc[p].month = None THEN "ac_commit"
                            ELSE "ac_income_lock"]
    /\ UNCHANGED <<db, lock>>

\* The MonthlyIncome row is inserted and post_save takes the lock of the
\* user's own wallet; a second row for the same month fails the request.
ac_income_lock(p) ==
    /\ proc[p].pc = "ac_income_lock"
    /\ LET u == proc[p].user
       IN IF ~UniqueTogether(monthly, u, proc[p].month)
          THEN /\ proc' = [proc EXCEPT ![p] =
                             [Idle EXCEPT !.pc = "done", !.result = "IntegrityError"]]
               /\ lock' = [w \in DOMAIN lock |->
                             IF lock[w] = p THEN None ELSE lock[w]]
          ELSE /\ lock[u] = p \/ RowLockFree(u)
               /\ lock' = [lock EXCEPT ![u] = p]
               /\ proc' = [proc EXCEPT ![p].pc = "ac_income_write"]
    /\ UNCHANGED db

\* update_wallet_on_monthly_income_save under the lock: the INCOME row, the
\* RESET_DEPOSIT row if the deposit sum is positive, and the snapshot.
ac_income_write(p) ==
    /\ proc[p].pc = "ac_income_write"
    /\ LET u == proc[p].user
           r == MonthlyIncomeSaved(wallet, Visible(p), u, proc[p].month,
                                   proc[p].amount)
       IN proc' = [proc EXCEPT
                     ![p].rows = @ \o SubSeq(r.ledger, Len(Visible(p)) + 1,
                                             Len(r.ledger)),
                     ![p].snaps = [@ EXCEPT ![u] = r.wallet[u]],
                     ![p].written = @ \cup {u},
                     ![p].income_set = TRUE,
                     ![p].pc = "ac_commit"]
    /\ UNCHANGED <<db, lock>>

\* The transaction of the request commits: its rows, snapshots, user row and
\* MonthlyIncome row become visible and its locks are released.
ac_commit(p) ==
    /\ proc[p].pc = "ac_commit"
    /\ ledger' = ledger \o proc[p].rows
    /\ wallet' = [w \in DOMAIN wallet |->
                    IF w \in proc[p].written THEN proc[p].snaps[w] ELSE wallet[w]]
    /\ status' = IF proc[p].status_set
                 THEN [status EXCEPT ![proc[p].user] = "Active"]
                 ELSE status
    /\ monthly' = IF proc[p].income_set
                  THEN Append(monthly, [user |-> proc[p].user,
                                        month |-> proc[p].month,
                                        total_income |-> proc[p].amount])
                  ELSE monthly
    /\ lock' = [w \in DOMAIN lock |-> IF lock[w] = p THEN None ELSE lock[w]]
    /\ proc' = [proc EXCEPT ![p] = [Idle EXCEPT !.pc = "done", !.result = "ok"]]
    /\ UNCHANGED <<referred_by, registered, wallets, payment_detail, stats,
                    auth, now>>

\* The wallet whose lock thread p is waiting for, if any.
WantedLock(p) ==
    IF proc[p].pc \in {"lock", "af_lock", "ac_bonus_lock"} THEN proc[p].wallet
    ELSE IF proc[p].pc = "ac_income_lock" THEN proc[p].user
    ELSE None

\* p waits for a lock that q holds.
Blocked(p, q) ==
    /\ p # q
    /\ WantedLock(p) # None
    /\ lock[WantedLock(p)] = q

\* The database finds p in a cycle of waiting transactions and aborts it:
\* its rows are rolled back and its locks released.
deadlock_abort(p) ==
    /\ \E q \in DOMAIN proc : Blocked(p, q) /\ Blocked(q, p)
    /\ proc' = [proc EXCEPT ![p] =
                  [Idle EXCEPT !.pc = "done", !.result = "Deadlock"]]
    /\ lock' = [w \in DOMAIN lock |-> IF lock[w] = p THEN None ELSE lock[w]]
    /\ UNCHANGED db

\* The thread takes the next request.
tx_return(p) ==
    /\ proc[p].pc = "done"
    /\ proc' = [proc EXCEPT ![p] = Idle]
    /\ UNCHANGED <<db, lock>>


\* The amounts of the concurrent deposits, withdrawals and batches, and the
\* users whose change form is submitted.
MixAmounts == {400}
MixUsers == {"u1", "u2"}

\* u1 has received one monthly income of 400; u2 was referred by u1, and u1
\* either has no referrer or, after an edit of referred_by, is referred by u2.
InitMix ==
    \E r \in {None, "u2"} :
        LET s == MonthlyIncomeSaved([u \in Users |-> EmptyWallet], <<>>, "u1", "m1", 400)
        IN /\ status = [u \in Users |-> "InActive"]
           /\ referred_by = [u \in Users |->
                               IF u = "u1" THEN r ELSE IF u = "u2" THEN "u1" ELSE None]
           /\ wallet = s.wallet
           /\ ledger = s.ledger
           /\ monthly = <<[user |-> "u1", month |-> "m1", total_income |-> 400]>>
           /\ InitRest

NextMix ==
    \/ \E p \in Procs, u \in Transactors, a \in MixAmounts :
          Len(ledger) < MaxMixRows /\ wf_begin(p, u, a)
    \/ \E p \in Procs, u \in Transactors, a \in MixAmounts :
          Len(ledger) < MaxMixRows /\ af_begin(p, u, a)
    \/ \E p \in Procs, u \in MixUsers, activate \in BOOLEAN,
          m \in {None, "m2"}, t \in MixAmounts :
          /\ Len(ledger) < MaxMixRows
          /\ activate \/ m # None
          /\ ac_begin(p, u, activate, m, t)
    \/ \E p \in Procs : wf_read(p)
    \/ \E p \in Procs : wf_lock(p)
    \/ \E p \in Procs : wf_admit(p)
    \/ \E p \in Procs : wf_insert(p)
    \/ \E p \in Procs : wf_snapshot(p)
    \/ \E p \in Procs : wf_resnapshot(p)
    \/ \E p \in Procs : wf_commit(p)
    \/ \E p \in Procs : af_lock(p)
    \/ \E p \in Procs : af_write(p)
    \/ \E p \in Procs : ac_read(p)
    \/ \E p \in Procs : ac_bonus_lock(p)
    \/ \E p \in Procs : ac_bonus_write(p)
    \/ \E p \in Procs : ac_user(p)
    \/ \E p \in Procs : ac_income_lock(p)
    \/ \E p \in Procs : ac_income_write(p)
    \/ \E p \in Procs : ac_commit(p)
    \/ \E p \in Procs : deadlock_abort(p)
    \/ \E p \in Procs : tx_return(p)

SpecMix == InitMix /\ [][NextMix]_vars


\* ------------------------------------------- completion of withdrawal requests
\* TransactionAdminForm.clean for the existing row i: for a WITHDRAWAL the
\* amount must not exceed the computed balance, to which the amount of the
\* edited row is added back whatever the status of the row.
TransactionAdminForm_clean(L, i) ==
    LET current_balance ==
            calculate_balance(L, L[i].wallet)
              + (IF L[i].type = "WITHDRAWAL" THEN L[i].amount ELSE 0)
    IN L[i].type = "WITHDRAWAL" => ~(L[i].amount > current_balance)

\* The admin changes the status of row i in the transaction inline of the
\* wallet page: the form is validated, then the row is saved.
TransactionInline_save(i, st) ==
    /\ TransactionAdminForm_clean(ledger, i)
    /\ set_status(i, st)

\* The amounts of the withdrawal requests.
CompleteAmounts == {400, 1000}

\* Withdrawal requests of the referrer and the admin's decisions on them.
NextComplete ==
    \/ \E u \in Transactors, a \in CompleteAmounts, p \in BOOLEAN :
          request_withdrawal(u, a, p) /\ Len(ledger') <= MaxInertRows
    \/ \E i \in 1..Len(ledger), st \in {"COMPLETED", "FAILED"} :
          TransactionInline_save(i, st)

SpecComplete == InitInert /\ [][NextComplete]_vars


\* ------------------------------------------- activation after registration
\* Registrations, some of which leave a user without a wallet, and saves of
\* the status of registered users.
NextActivate ==
    \/ \E u \in Users, referral \in Users \cup {None},
          wallet_ok \in BOOLEAN, link_ok \in BOOLEAN :
          register(u, referral, wallet_ok, link_ok)
    \/ \E u \in Users, s \in {"Active", "InActive"}, w \in BOOLEAN :
          u \in registered /\ save_user(u, s, w) /\ Bounded

SpecActivate == InitRefer /\ [][NextActivate]_vars

\* ---- password reset: request an OTP, verify it, reset the password ----

\* The lifetime of an OTP in minutes, timedelta(minutes=10).
OtpLifetime == 10

\* The clock advances in steps of TickMinutes up to MaxTime minutes.
TickMinutes == 5
MaxTime == 15

\* The users that run the protocol, the OTPs random.choices can draw, and the
\* passwords a request can carry, each with its length.
ResetUsers == {"u1", "u2"}
OtpCodes == {"111111", "222222"}
PasswordLength == [p \in {"password1", "password2", "short"} |->
                      IF p = "short" THEN 5 ELSE 9]
MinPasswordLength == 8

\* OTP.is_valid: the record of u is valid up to and including expires_at.
is_valid(u) == now <= auth[u].expires_at

\* The OTP row of u is deleted.
otp_deleted(u) ==
    [auth EXCEPT ![u] = [@ EXCEPT !.otp = None, !.expires_at = 0,
                                  !.verified = FALSE]]

\* ForgetPasswordView.post with ForgetPasswordSerializer.save: the old OTP
\* rows of the user are deleted and a new one that expires OtpLifetime
\* minutes from now is created under autocommit, before the mail is sent, so
\* the row is stored whether or not send_mail raises.
ForgetPasswordView_post(u, code) ==
    /\ u \in registered
    /\ auth' = [auth EXCEPT ![u] = [@ EXCEPT !.otp = code,
                                            !.expires_at = now + OtpLifetime,
                                            !.verified = FALSE]]
    /\ UNCHANGED <<status, referred_by, wallet, ledger, monthly, proc, lock,
                   registered, wallets, payment_detail, stats, now>>

\* VerifyOTPView.post with VerifyOTPSerializer.validate: no row of the user
\* with the presented OTP is an error; an expired row is deleted; otherwise
\* the view answers 'OTP is Correct' and writes nothing, which the model
\* records in verified.
VerifyOTPView_post(u, code) ==
    /\ u \in registered
    /\ IF auth[u].otp # code
       THEN UNCHANGED auth
       ELSE IF ~is_valid(u)
            THEN auth' = otp_deleted(u)
            ELSE auth' = [auth EXCEPT ![u] = [@ EXCEPT !.verified = TRUE]]
    /\ UNCHANGED <<status, referred_by, wallet, ledger, monthly, proc, lock,
                   registered, wallets, payment_detail, stats, now>>

\* ResetPasswordView.post with ResetPasswordSerializer.validate: the request
\* carries the email and the two passwords, no OTP. Without an OTP row of the
\* user it is rejected; an expired row is deleted and the request rejected;
\* passwords that differ or are shorter than MinPasswordLength are rejected;
\* otherwise the password is set, the user saved (its status is the stored
\* one, so the pre_save handler pays nothing) and the OTP row deleted.
ResetPasswordView_post(u, create_password, confirm_password) ==
    /\ u \in registered
    /\ IF auth[u].otp = None
       THEN UNCHANGED auth
       ELSE IF ~is_valid(u)
            THEN auth' = otp_deleted(u)
            ELSE IF \/ create_password # confirm_password
                    \/ PasswordLength[create_password] < MinPasswordLength
                 THEN UNCHANGED auth
                 ELSE auth' = [otp_deleted(u) EXCEPT
                                  ![u].password = create_password]
    /\ UNCHANGED <<status, referred_by, wallet, ledger, monthly, proc, lock,
                   registered, wallets, payment_detail, stats, now>>

\* timezone.now() moves on.
Tick ==
    /\ now < MaxTime
    /\ now' = now + TickMinutes
    /\ UNCHANGED <<status, referred_by, wallet, ledger, monthly, proc, lock,
                   registered, wallets, payment_detail, stats, auth>>

NextReset ==
    \/ \E u \in ResetUsers, code \in OtpCodes : ForgetPasswordView_post(u, code)
    \/ \E u \in ResetUsers, code \in OtpCodes : VerifyOTPView_post(u, code)
    \/ \E u \in ResetUsers, p, q \in DOMAIN PasswordLength :
           ResetPasswordView_post(u, p, q)
    \/ Tick

SpecReset == Init /\ [][NextReset]_vars

\* ================================================================ properties
RECURSIVE CountRows(_, _, _, _)
\* The number of rows of wallet u with the given type and status set.
CountRows(L, u, type, sts) ==
    IF L = <<>> THEN 0
    ELSE (IF Head(L).wallet = u /\ Head(L).type = type /\ Head(L).status \in sts
          THEN 1 ELSE 0) + CountRows(Tail(L), u, type, sts)

\* C1: in every reachable state the five persisted fields of every wallet equal
\* the aggregation over its COMPLETED transactions: total_income = sum of INCOME,
\* refer_income = sum of REFERRAL, total_withdrawal = sum of WITHDRAWAL,
\* wallet_balance = total_income + refer_income - total_withdrawal, and
\* total_deposit = max(0, sum of DEPOSIT + sum of RESET_DEPOSIT).
C1_SnapshotEqualsAggregation ==
    \A u \in Users :
        /\ wallet[u].total_income = SumRows(ledger, u, {"INCOME"})
        /\ wallet[u].refer_income = SumRows(ledger, u, {"REFERRAL"})
        /\ wallet[u].total_withdrawal = SumRows(ledger, u, {"WITHDRAWAL"})
        /\ wallet[u].wallet_balance =
               SumRows(ledger, u, {"INCOME"}) + SumRows(ledger, u, {"REFERRAL"})
                   - SumRows(ledger, u, {"WITHDRAWAL"})
        /\ wallet[u].total_deposit =
               Max(0, SumRows(ledger, u, {"DEPOSIT"})
                          + SumRows(ledger, u, {"RESET_DEPOSIT"}))

\* C2: in every reachable state the balance of every wallet, computed fresh from
\* the ledger (COMPLETED INCOME + COMPLETED REFERRAL - COMPLETED WITHDRAWAL),
\* is >= 0.
C2_BalanceNonNegative ==
    \A u \in Users :
        SumRows(ledger, u, {"INCOME"}) + SumRows(ledger, u, {"REFERRAL"})
            - SumRows(ledger, u, {"WITHDRAWAL"}) >= 0

\* C3: a withdrawal of more than the wallet's computed balance is rejected and
\* writes nothing, on each of the three paths that submit one (withdraw_funds,
\* the creation of a COMPLETED WITHDRAWAL row, the withdrawal request): the
\* Transaction table and the five snapshot fields are as before.
C3_OverdrawWritesNothing ==
    [][\A u \in Users, a \in WithdrawAmounts \cup DirectAmounts \cup RequestAmounts :
          a > calculate_balance(ledger, u) =>
              /\ withdraw_funds(u, a) => (ledger' = ledger /\ wallet' = wallet)
              /\ create_transaction(u, "WITHDRAWAL", a, "COMPLETED")
                     => (ledger' = ledger /\ wallet' = wallet)
              /\ \A p \in BOOLEAN :
                     request_withdrawal(u, a, p) => (ledger' = ledger /\ wallet' = wallet)
      ]_vars

\* The two calls have returned, they were calls of the same amount X > 0 on
\* wallet u, and the balance B the wallet started with has X <= B < 2X.
\* (Withdrawals are the only rows the calls add, so B is the sum of the INCOME
\* and REFERRAL rows.)
BothReturned(u) ==
    /\ \A p \in Procs : proc[p].pc = "done" /\ proc[p].wallet = u
    /\ proc["p1"].amount = proc["p2"].amount
    /\ proc["p1"].amount > 0
    /\ proc["p1"].amount <= SumRows(ledger, u, {"INCOME", "REFERRAL"})
    /\ SumRows(ledger, u, {"INCOME", "REFERRAL"}) < 2 * proc["p1"].amount

\* C4: two concurrent withdraw_funds(X) calls on one wallet of balance B with
\* X <= B < 2X: under every interleaving exactly one call succeeds, exactly one
\* COMPLETED WITHDRAWAL row of amount X is added, and the final balance, in the
\* ledger and in the snapshot, is B - X.
C4_ExactlyOneSucceeds ==
    \A u \in Users :
        BothReturned(u) =>
            LET X == proc["p1"].amount
                B == SumRows(ledger, u, {"INCOME", "REFERRAL"})
            IN /\ Cardinality({p \in Procs : proc[p].result = "ok"}) = 1
               /\ CountRows(ledger, u, "WITHDRAWAL", {"COMPLETED"}) = 1
               /\ SumRows(ledger, u, {"WITHDRAWAL"}) = X
               /\ calculate_balance(ledger, u) = B - X
               /\ wallet[u].wallet_balance = B - X

\* Both calls passed the unlocked balance read and one of them was turned down
\* by the check under the lock.
C4_Witness ==
    \E u \in Users :
        /\ BothReturned(u)
        /\ \E p \in Procs : proc[p].result = "Failed"
        /\ \E p \in Procs : proc[p].result = "ok"

\* C5: deleting a transaction is a no-op: for every row, the delete leaves the
\* number of rows, the row's contents and the wallet snapshot unchanged.
C5_DeleteIsNoOp ==
    [][\A i \in 1..Len(ledger) :
          delete_transaction(i) => (ledger' = ledger /\ wallet' = wallet)]_vars

\* C6: every save of a user who has a referrer adds exactly one REFERRAL row to
\* the referrer's ledger when the persisted status is InActive and the incoming
\* one Active, and adds no row otherwise (the persisted status is already
\* Active, or the incoming one is not Active).
C6_OneBonusPerActivation ==
    [][\A u \in Users, s \in {"Active", "InActive"}, w \in BOOLEAN :
          (referred_by[u] # None /\ save_user(u, s, w)) =>
              /\ CountRows(ledger', referred_by[u], "REFERRAL", TxStatus)
                   = CountRows(ledger, referred_by[u], "REFERRAL", TxStatus)
                       + (IF status[u] = "InActive" /\ s = "Active" THEN 1 ELSE 0)
              /\ Len(ledger')
                   = Len(ledger) + (IF status[u] = "InActive" /\ s = "Active" THEN 1 ELSE 0)
      ]_vars

\* Both referred users are Active and the referrer holds one bonus for each.
C6_Witness ==
    /\ status["u2"] = "Active"
    /\ status["u3"] = "Active"
    /\ CountRows(ledger, "u1", "REFERRAL", {"COMPLETED"}) = 2

\* C7: the bonus is atomic with the activation: an InActive-to-Active save of a
\* user with a referrer that commits appends exactly one COMPLETED REFERRAL row
\* of 400 to the referrer's wallet and none to the user's own; one whose status
\* write does not commit leaves no REFERRAL row behind.
C7_BonusAtomicWithActivation ==
    [][\A u \in Users, w \in BOOLEAN :
          (status[u] = "InActive" /\ referred_by[u] # None /\ save_user(u, "Active", w)) =>
              IF w
              THEN /\ Len(ledger') = Len(ledger) + 1
                   /\ SubSeq(ledger', 1, Len(ledger)) = ledger
                   /\ ledger'[Len(ledger')].wallet = referred_by[u]
                   /\ ledger'[Len(ledger')].type = "REFERRAL"
                   /\ ledger'[Len(ledger')].status = "COMPLETED"
                   /\ ledger'[Len(ledger')].amount = 400
              ELSE ledger' = ledger
      ]_vars

\* C8: immediately after a monthly income batch is created for a user (the
\* creation appended its transactions), the user's total_deposit is 0, whatever
\* deposits and earlier batches came before.
C8_DepositZeroAfterBatch ==
    [][\A u \in Users, m \in Months, t \in Totals, h \in BOOLEAN :
          (create_monthly_income(u, m, t, h) /\ Len(ledger') > Len(ledger)) =>
              /\ wallet'[u].total_deposit = 0
              /\ SumRows(ledger', u, {"DEPOSIT", "RESET_DEPOSIT"}) <= 0
      ]_vars

\* A second batch has netted the deposit made after the first: the wallet holds
\* two COMPLETED deposits and two COMPLETED reset rows, the last row is a reset
\* row, and total_deposit is 0.
C8_Witness ==
    \E u \in Users :
        /\ CountRows(ledger, u, "DEPOSIT", {"COMPLETED"}) = 2
        /\ CountRows(ledger, u, "RESET_DEPOSIT", {"COMPLETED"}) = 2
        /\ ledger[Len(ledger)].type = "RESET_DEPOSIT"
        /\ wallet[u].total_deposit = 0

\* C9: creating a MonthlyIncome record appends, atomically with it, one
\* COMPLETED INCOME row of amount total_income and one COMPLETED RESET_DEPOSIT
\* row to the user's wallet: the record is never there without the INCOME row,
\* nor the INCOME row without the RESET_DEPOSIT row.
C9_BatchIsAtomic ==
    [][\A u \in Users, m \in Months, t \in Totals, h \in BOOLEAN :
          (create_monthly_income(u, m, t, h) /\ Len(monthly') > Len(monthly)) =>
              /\ Len(ledger') = Len(ledger) + 2
              /\ SubSeq(ledger', 1, Len(ledger)) = ledger
              /\ ledger'[Len(ledger) + 1].wallet = u
              /\ ledger'[Len(ledger) + 1].type = "INCOME"
              /\ ledger'[Len(ledger) + 1].status = "COMPLETED"
              /\ ledger'[Len(ledger) + 1].amount = t
              /\ ledger'[Len(ledger) + 2].wallet = u
              /\ ledger'[Len(ledger) + 2].type = "RESET_DEPOSIT"
              /\ ledger'[Len(ledger) + 2].status = "COMPLETED"
      ]_vars

\* No two MonthlyIncome records share (user, month).
AtMostOnePerMonth ==
    \A j, k \in 1..Len(monthly) :
        (monthly[j].user = monthly[k].user /\ monthly[j].month = monthly[k].month)
            => j = k

\* C10: at most one MonthlyIncome record exists per (user, month) in every
\* reachable state, and a creation for a (user, month) that exists adds no
\* record, appends no transaction and leaves the wallet snapshot unchanged.
C10_OnePerUserMonth ==
    /\ []AtMostOnePerMonth
    /\ [][\A u \in Users, m \in Months, t \in Totals, h \in BOOLEAN :
            (create_monthly_income(u, m, t, h)
                 /\ \E k \in 1..Len(monthly) : monthly[k].user = u /\ monthly[k].month = m)
              => (monthly' = monthly /\ ledger' = ledger /\ wallet' = wallet)
        ]_vars

\* Both months of a user hold a record, each with its INCOME row.
C10_Witness ==
    \E u \in Users :
        /\ Len(monthly) = Cardinality(Months)
        /\ \A k \in 1..Len(monthly) : monthly[k].user = u
        /\ CountRows(ledger, u, "INCOME", {"COMPLETED"}) = Cardinality(Months)

\* The balance of wallet u computed fresh from ledger L.
FreshBalance(L, u) ==
    SumRows(L, u, {"INCOME"}) + SumRows(L, u, {"REFERRAL"})
        - SumRows(L, u, {"WITHDRAWAL"})

\* C11: a MonthlyIncome record whose month has an INCOME transaction is deleted
\* only if the wallet's fresh balance is at least that transaction's amount.
\* When the balance is smaller the deletion is rejected and the record, every
\* ledger row and the snapshot are unchanged; when it is permitted the record
\* goes and the INCOME row stays in the ledger, the same but for status FAILED.
C11_DeletionNeedsBalance ==
    [][\A k \in 1..Len(monthly) :
          LET u == monthly[k].user
              i == IncomeTx(ledger, u, monthly[k].month)
          IN (delete_monthly_income(k) /\ i # 0) =>
                IF FreshBalance(ledger, u) < ledger[i].amount
                THEN monthly' = monthly /\ ledger' = ledger /\ wallet' = wallet
                ELSE /\ Len(monthly') = Len(monthly) - 1
                     /\ Len(ledger') = Len(ledger)
                     /\ ledger'[i] = [ledger[i] EXCEPT !.status = "FAILED"]
                     /\ \A j \in 1..Len(ledger) : j # i => ledger'[j] = ledger[j]
      ]_vars

\* One month's record was deleted and its INCOME row is FAILED; the other
\* month's record is still there with its COMPLETED INCOME row and the balance
\* is below that row's amount, so its deletion is refused.
C11_Witness ==
    /\ Len(monthly) = 1
    /\ \E j \in 1..Len(ledger) : ledger[j].type = "INCOME" /\ ledger[j].status = "FAILED"
    /\ LET u == monthly[1].user
           i == IncomeTx(ledger, u, monthly[1].month)
       IN i # 0 /\ FreshBalance(ledger, u) < ledger[i].amount

\* C12: every INCOME, REFERRAL, DEPOSIT and WITHDRAWAL row of every reachable
\* ledger has amount > 0 (a deposit or withdrawal of amount <= 0 writes no row,
\* and neither does any other operation, a monthly income batch of
\* total_income 0 included); only RESET_DEPOSIT rows may carry another amount.
C12_AmountsPositive ==
    \A i \in 1..Len(ledger) :
        ledger[i].type \in {"INCOME", "REFERRAL", "DEPOSIT", "WITHDRAWAL"}
            => ledger[i].amount > 0

\* C13: appending a PENDING or FAILED transaction of any type and amount, a
\* withdrawal request included, adds the row and leaves the five persisted
\* snapshot fields and the freshly computed balance of every wallet unchanged.
C13_PendingFailedInert ==
    [][\A u \in Transactors, a \in InertAmounts \cup RequestAmounts :
          /\ \A ty \in TxTypes, st \in InertStatus :
                create_transaction(u, ty, a, st) =>
                    /\ Len(ledger') = Len(ledger) + 1
                    /\ wallet' = wallet
                    /\ calculate_balance(ledger', u) = calculate_balance(ledger, u)
          /\ \A p \in BOOLEAN :
                request_withdrawal(u, a, p) =>
                    /\ wallet' = wallet
                    /\ calculate_balance(ledger', u) = calculate_balance(ledger, u)
      ]_vars

\* A wallet with a positive balance holds a PENDING withdrawal request and a
\* FAILED row appended directly, and its snapshot balance is the fresh balance.
C13_Witness ==
    \E u \in Users :
        /\ FreshBalance(ledger, u) > 0
        /\ wallet[u].wallet_balance = FreshBalance(ledger, u)
        /\ \E i \in 1..Len(ledger) :
              /\ ledger[i].wallet = u /\ ledger[i].status = "PENDING"
              /\ ledger[i].desc = <<"", "">>
        /\ \E i \in 1..Len(ledger) :
              /\ ledger[i].wallet = u /\ ledger[i].status = "FAILED"
              /\ ledger[i].desc = <<"", "">>

\* C14: every status transition of an existing transaction (PENDING to
\* COMPLETED, COMPLETED to FAILED, PENDING to FAILED), the one the monthly
\* income deletion makes included, re-aggregates the owning wallet with the
\* status write: after the step the persisted snapshot is the aggregation of
\* the ledger as the step left it, so a row set to FAILED is no longer counted.
C14_TransitionReaggregates ==
    [][/\ \A i \in 1..Len(ledger), st \in TxStatus :
            set_status(i, st) =>
                wallet'[ledger[i].wallet]
                    = update_from_transactions(ledger', ledger[i].wallet)
       /\ \A k \in 1..Len(monthly) :
            (delete_monthly_income(k) /\ ledger' # ledger) =>
                wallet'[monthly[k].user]
                    = update_from_transactions(ledger', monthly[k].user)
      ]_vars

\* Every COMPLETED row of wallet u in ledger L is a deposit.
OnlyDeposits(L, u) ==
    \A i \in 1..Len(L) :
        (L[i].wallet = u /\ L[i].status = "COMPLETED") => L[i].type = "DEPOSIT"

\* C15: a successful deposit of amount a appends exactly one COMPLETED DEPOSIT
\* row of amount a and leaves total_income, refer_income, total_withdrawal and
\* wallet_balance of the wallet unchanged; and a wallet whose only COMPLETED
\* transactions are deposits rejects every withdrawal of a positive amount.
C15_DepositOnlyDepositSide ==
    [][\A u \in Transactors :
          /\ \A a \in DepositAmounts :
                (a > 0 /\ add_funds(u, a)) =>
                    /\ Len(ledger') = Len(ledger) + 1
                    /\ SubSeq(ledger', 1, Len(ledger)) = ledger
                    /\ ledger'[Len(ledger')].wallet = u
                    /\ ledger'[Len(ledger')].type = "DEPOSIT"
                    /\ ledger'[Len(ledger')].status = "COMPLETED"
                    /\ ledger'[Len(ledger')].amount = a
                    /\ wallet'[u].total_income = wallet[u].total_income
                    /\ wallet'[u].refer_income = wallet[u].refer_income
                    /\ wallet'[u].total_withdrawal = wallet[u].total_withdrawal
                    /\ wallet'[u].wallet_balance = wallet[u].wallet_balance
          /\ \A a \in WithdrawAmounts :
                (a > 0 /\ OnlyDeposits(ledger, u) /\ withdraw_funds(u, a)) =>
                    ledger' = ledger
      ]_vars

\* The users other than u from which u is reached by following referred_by.
Descendants(u) ==
    {v \in DOMAIN referred_by \ {u} :
        u \in AncestorsIn(referred_by, v, Cardinality(DOMAIN referred_by))}

\* C16: in every referral forest, total_team of every user is the number of
\* the user's transitive descendants, each counted once, both as the model
\* property computes it and as the statistics view reports it.
C16_TotalTeamIsDescendants ==
    /\ \A u \in DOMAIN referred_by :
          /\ total_team(u) = Cardinality(Descendants(u))
          /\ get_team(u).total = Cardinality(Descendants(u))
    /\ stats.user # None =>
          stats.total_team = Cardinality(Descendants(stats.user))

\* The admin list has shown the head of a chain of three referrals.
C16_Witness ==
    /\ stats.user # None
    /\ stats.via = "admin"
    /\ stats.total_team = 3
    /\ \E v \in DOMAIN referred_by :
          /\ referred_by[v] # None
          /\ referred_by[referred_by[v]] # None
          /\ referred_by[referred_by[referred_by[v]]] = stats.user

\* The Active users among the transitive descendants of u.
ActiveDescendants(u) == {v \in Descendants(u) : status[v] = "Active"}

\* C17: in every referral forest and status assignment, the active_team the
\* admin list shows for a user is the number of the user's transitive
\* descendants whose status is Active.
C17_ActiveTeamIsActiveDescendants ==
    stats.via = "admin" =>
        stats.active_team = Cardinality(ActiveDescendants(stats.user))

\* C18: total_referrals of a user is the number of users whose referred_by is
\* that user, active_referrals the number of those that are Active, and
\* active_referrals <= total_referrals <= total_team, for the model properties
\* and for every response of the statistics view and of the admin list.
C18_DirectCountsBounded ==
    /\ \A u \in DOMAIN referred_by :
          /\ total_referrals(u) =
                Cardinality({v \in DOMAIN referred_by : referred_by[v] = u})
          /\ active_referrals(u) =
                Cardinality({v \in DOMAIN referred_by :
                                referred_by[v] = u /\ status[v] = "Active"})
          /\ active_referrals(u) <= total_referrals(u)
          /\ total_referrals(u) <= total_team(u)
    /\ stats.user # None =>
          /\ stats.total_referrals =
                Cardinality({v \in DOMAIN referred_by : referred_by[v] = stats.user})
          /\ stats.active_referrals =
                Cardinality({v \in DOMAIN referred_by :
                                referred_by[v] = stats.user /\ status[v] = "Active"})
          /\ stats.active_referrals <= stats.total_referrals
          /\ stats.total_referrals <= stats.total_team

\* The view has answered for a user with an Active and an InActive direct
\* referral and a referral of a referral.
C18_Witness ==
    /\ stats.via = "view"
    /\ 0 < stats.active_referrals
    /\ stats.active_referrals < stats.total_referrals
    /\ stats.total_referrals < stats.total_team

\* C19: in every reachable state every registered user owns a wallet and every
\* wallet belongs to a registered user, also after a registration in which the
\* wallet creation or the linking of the referrer failed.
C19_EveryUserHasWallet == registered = wallets

\* A payment method is there and no group is filled in partly.
CompleteMethods(filled) ==
    /\ \E f \in {"account_number", "upi_id", "card_number"} : f \in filled
    /\ \/ \A f \in BankFields : f \in filled
       \/ \A f \in BankFields : f \notin filled
    /\ \/ \A f \in CardFields : f \in filled
       \/ \A f \in CardFields : f \notin filled

\* C20: on every write path a PaymentDetail is stored only with at least one
\* of account number, UPI id and card number present and with the bank group
\* and the card group each entirely filled or entirely empty.
C20_StoredDetailIsComplete ==
    \A u \in DOMAIN payment_detail :
        payment_detail[u].stored => CompleteMethods(payment_detail[u].filled)

\* C21: total_team and active_team return for every user on every referred_by
\* relation that registration and edits of referred_by produce: no response
\* of the admin list or of the statistics view is a raised RecursionError.
C21_TraversalReturns == ~stats.raised

\* The wallets of which thread p has written rows that are not committed.
Uncommitted(p) == {proc[p].rows[i].wallet : i \in 1..Len(proc[p].rows)}

\* C22: the steps of two concurrent ledger mutations on one wallet do not
\* interleave (no two threads have uncommitted rows of the same wallet), and
\* whenever no thread holds the lock of a wallet its persisted snapshot is the
\* aggregate of the committed COMPLETED rows, whatever the interleaving of
\* deposits, withdrawals, bonus emissions and monthly batches.
C22_NoLostSnapshotUpdate ==
    /\ \A p, q \in DOMAIN proc :
          p # q => Uncommitted(p) \cap Uncommitted(q) = {}
    /\ \A u \in DOMAIN wallet :
          lock[u] = None => wallet[u] = update_from_transactions(ledger, u)

\* A deposit is committed, a thread holds the lock of u1's wallet with an
\* uncommitted bonus row, and a withdrawal waits for that lock.
C22_Witness ==
    /\ CountRows(ledger, "u1", "DEPOSIT", {"COMPLETED"}) > 0
    /\ \E p, q \in DOMAIN proc :
          /\ Blocked(p, q)
          /\ proc[p].pc = "lock"
          /\ proc[q].pc = "ac_user"
          /\ "u1" \in Uncommitted(q)

\* The wallets whose row lock thread p holds.
Holds(p) == {w \in DOMAIN lock : lock[w] = p}

\* C23: no two operations wait on each other's wallet locks, because every
\* operation holds at most one wallet lock at a time.
C23_AtMostOneLockNoMutualWait ==
    /\ \A p \in DOMAIN proc : Cardinality(Holds(p)) <= 1
    /\ \A p, q \in DOMAIN proc : ~(Blocked(p, q) /\ Blocked(q, p))

\* C27: the referrer's ledger holds at most one REFERRAL row for the one
\* activation of a user, also when two requests save the user concurrently.
C27_OneBonusForConcurrentSaves ==
    \A u \in DOMAIN status :
        Cardinality({i \in 1..Len(ledger) :
                        /\ ledger[i].type = "REFERRAL"
                        /\ ledger[i].desc[2] = u}) <= 1

\* C26: a WITHDRAWAL row goes from PENDING to COMPLETED only if the computed
\* balance of its wallet at that moment is at least its amount.
C26_CompletionNeedsBalance ==
    [][\A i \in 1..Len(ledger) :
          (/\ ledger[i].type = "WITHDRAWAL"
           /\ ledger[i].status = "PENDING"
           /\ TransactionInline_save(i, "COMPLETED"))
          => calculate_balance(ledger, ledger[i].wallet) >= ledger[i].amount]_vars

\* C24: whether a withdrawal is admitted depends on the COMPLETED rows of the
\* ledger alone, never on the persisted wallet_balance: withdraw_funds and the
\* creation of a COMPLETED WITHDRAWAL row write exactly when the balance
\* computed from the ledger covers the amount, whatever the snapshot holds.
C24_AdmissionFromLedgerOnly ==
    [][\A u \in Transactors, a \in WithdrawAmounts \cup DirectAmounts :
          /\ withdraw_funds(u, a) =>
                ((ledger' # ledger) <=> (a > 0 /\ FreshBalance(ledger, u) >= a))
          /\ create_transaction(u, "WITHDRAWAL", a, "COMPLETED") =>
                ((ledger' # ledger) <=> FreshBalance(ledger, u) >= a)]_vars

\* A withdrawal has been made and the persisted balance covers an amount that
\* the ledger does not cover.
C24_Witness ==
    \E u \in Transactors :
        /\ CountRows(ledger, u, "WITHDRAWAL", {"COMPLETED"}) > 0
        /\ wallet[u].wallet_balance >= 400
        /\ FreshBalance(ledger, u) < 400

\* C25: when a user whose referrer has no wallet is saved from InActive to
\* Active, nothing is written to any ledger or wallet, and the status becomes
\* Active whenever the write of the user row succeeds.
C25_ActivationWithoutReferrerWallet ==
    [][\A u \in DOMAIN status, w \in BOOLEAN :
          (/\ status[u] = "InActive"
           /\ referred_by[u] # None
           /\ referred_by[u] \notin wallets
           /\ save_user(u, "Active", w))
          => /\ ledger' = ledger
             /\ wallet' = wallet
             /\ w => status'[u] = "Active"]_vars

\* A user is Active, its referrer is registered without a wallet, and the
\* ledger is empty.
C25_Witness ==
    \E u \in DOMAIN status :
        /\ status[u] = "Active"
        /\ referred_by[u] \in registered \ wallets
        /\ ledger = <<>>

\* C28: in every reachable state the COMPLETED DEPOSIT and RESET_DEPOSIT
\* amounts of a wallet sum to at least 0, so that a COMPLETED deposit of d
\* after a reset yields total_deposit = d.
C28_DepositNetNonNegative ==
    \A u \in DOMAIN wallet :
        SumRows(ledger, u, {"DEPOSIT", "RESET_DEPOSIT"}) >= 0

\* C29: the total_team and active_team of the statistics view are those of the
\* CustomUser properties for the same user, in every referral forest and
\* status assignment.
C29_ViewEqualsProperties ==
    (stats.via = "view" /\ ~stats.raised) =>
        /\ stats.total_team = total_team(stats.user)
        /\ stats.active_team = active_team(stats.user)
\* C30: the password of a user changes only in a step before which the
\* stored OTP of that user is unexpired and has been verified since it was
\* issued, and that step deletes the OTP.
C30_ResetNeedsVerifiedOtp ==
    [][\A u \in DOMAIN auth :
          auth'[u].password # auth[u].password
          => /\ auth[u].otp # None
             /\ auth[u].verified
             /\ now <= auth[u].expires_at
             /\ auth'[u].otp = None]_vars
====
